---- MODULE Spec2Model ----
(***************************************************************************)
(* A model of pipsync (src/pipsync/__init__.py): the Requirement model,   *)
(* the reconciler PackageProcessor.generate_requirements and main's loop  *)
(* over the discovered requirements files.                                *)
(*                                                                         *)
(* Strings are sequences of one-character strings, so that parsing,       *)
(* formatting, splitting and Python's string order are computed and not   *)
(* assumed.  A lock entry's missing key and its empty value are both the  *)
(* empty string: the code tests them by truthiness only.                  *)
(***************************************************************************)
EXTENDS Naturals, Sequences, FiniteSets

VARIABLES
    \* --- the project (Pipfile, Pipfile.lock, pipenv graph) and the flags
    packages,          \* keys of the Pipfile's [packages] table
    dev_packages,      \* keys of the Pipfile's [dev-packages] table
    lock_default,      \* Pipfile.lock "default": package name -> raw entry
    lock_develop,      \* Pipfile.lock "develop": package name -> raw entry
    dependency_map,    \* PackageProcessor.dependency_map
    force, in_place, include_dev,
    \* --- Requirement (specification SpecReq)
    req_name, req_data, req, parsed,
    \* --- generate_requirements (specification SpecGen)
    requirements_list, result, rerun,
    \* --- main (specification Spec)
    pc, exited_by, exit_code,
    path_given, lock_readable, pipfile_readable,
    fs_before, fs, exclude,
    dependency_files, idx, synced_count, skipped_count, written

project == <<packages, dev_packages, lock_default, lock_develop, dependency_map>>
flags   == <<force, in_place, include_dev>>
reqvars == <<req_name, req_data, req, parsed>>
genvars == <<requirements_list, result, rerun>>
rest == <<exited_by, exit_code, path_given, lock_readable,
          pipfile_readable, fs_before, fs, exclude, dependency_files, idx,
          synced_count, skipped_count, written>>
mainvars == <<pc, rest>>
vars == <<project, flags, reqvars, genvars, mainvars>>

----------------------------------------------------------------------------
(* Strings *)

\* The characters of the model in code-point order (Python compares strings
\* by code point).
Alphabet == <<"\n", " ", "#", "+", "-", "0", "1", "2", "=", ">", "@",
              "a", "b", "c", "e", "g", "i", "t", "u">>

Ord(c) == CHOOSE k \in 1..Len(Alphabet) : Alphabet[k] = c

\* s < t in Python's order on str.
StrLess(s, t) ==
    \E k \in 1..(Len(t)) :
        /\ \A j \in 1..(k - 1) : j <= Len(s) /\ s[j] = t[j]
        /\ \/ k = Len(s) + 1
           \/ k <= Len(s) /\ Ord(s[k]) < Ord(t[k])

StartsWith(s, p) == Len(p) <= Len(s) /\ SubSeq(s, 1, Len(p)) = p

\* The positions at which sub occurs in s.
Occurrences(s, sub) ==
    {k \in 1..(Len(s) + 1 - Len(sub)) : SubSeq(s, k, k + Len(sub) - 1) = sub}

Min(S) == CHOOSE m \in S : \A n \in S : m <= n
Max(S) == CHOOSE m \in S : \A n \in S : n <= m

\* str.rstrip("\n")
RECURSIVE RStripNewline(_)
RStripNewline(s) ==
    IF Len(s) > 0 /\ s[Len(s)] = "\n"
    THEN RStripNewline(SubSeq(s, 1, Len(s) - 1))
    ELSE s

\* str.split(sep)[0]
SplitFirst(s, sep) ==
    IF Occurrences(s, sep) = {} THEN s
    ELSE SubSeq(s, 1, Min(Occurrences(s, sep)) - 1)

NL == <<"\n">>
EqEq == <<"=", "=">>
EggMark == <<"#", "e", "g", "g", "=">>
GitPlus == <<"g", "i", "t", "+">>
DashE == <<"-", "e", " ">>

----------------------------------------------------------------------------
(* class Requirement *)

Requirement(name, line) == [package_name |-> name, requirement_line |-> line]

\* Requirement.git_parser: ^(?:-e )?git\+.*#egg=(?P<package>.*)$
\* "$" also matches before one final newline and "." matches no newline.
\* The result is <<TRUE, package>> on a match, <<FALSE, <<>> >> otherwise.
git_parser(line) ==
    LET t    == IF Len(line) > 0 /\ line[Len(line)] = "\n"
                THEN SubSeq(line, 1, Len(line) - 1) ELSE line
        body == IF StartsWith(t, DashE) THEN SubSeq(t, 4, Len(t)) ELSE t
        eggs == {k \in Occurrences(body, EggMark) : k > Len(GitPlus)}
    IN  IF /\ \A k \in 1..Len(t) : t[k] # "\n"
           /\ StartsWith(body, GitPlus)
           /\ eggs # {}
        THEN <<TRUE, SubSeq(body, Max(eggs) + Len(EggMark), Len(body))>>
        ELSE <<FALSE, <<>> >>

parse_requirement_line_split_first(requirement_line) ==
    Requirement(SplitFirst(RStripNewline(requirement_line), EqEq),
                RStripNewline(requirement_line))

parse_requirement_line(requirement_line) ==
    LET git_repo == git_parser(requirement_line)
        name == IF git_repo[1]
                THEN RStripNewline(git_repo[2])
                ELSE SplitFirst(RStripNewline(requirement_line), EqEq)
    IN  Requirement(name, RStripNewline(requirement_line))

from_data(package_name, package_data) ==
    IF Len(package_data.version) > 0
    THEN Requirement(package_name, package_name \o package_data.version)
    ELSE IF Len(package_data.git) > 0
    THEN LET prefix == IF package_data.editable THEN DashE ELSE <<>>
             ref == IF Len(package_data.ref) > 0
                    THEN <<"@">> \o package_data.ref ELSE <<>>
         IN  Requirement(package_name,
                 prefix \o GitPlus \o package_data.git \o ref
                        \o EggMark \o package_name)
    ELSE Requirement(package_name, package_name)

----------------------------------------------------------------------------
(* class Pipfile, class PipfileLock *)

Range(f) == {f[k] : k \in DOMAIN f}

\* {**left, **right}: the right-hand mapping wins on a shared key.
Merge(left, right) ==
    [k \in DOMAIN left \cup DOMAIN right |->
        IF k \in DOMAIN right THEN right[k] ELSE left[k]]

default_packages == packages

all_packages == packages \cup dev_packages

PipfileLock_default ==
    [n \in DOMAIN lock_default |-> from_data(n, lock_default[n])]

PipfileLock_dev ==
    [n \in DOMAIN lock_develop |-> from_data(n, lock_develop[n])]

----------------------------------------------------------------------------
(* PackageProcessor.generate_requirements *)

\* {requirement.package_name: requirement for requirement in requirements_list}
\* (a later requirement of the same name replaces an earlier one).
requirements_dict(list) ==
    [n \in {list[k].package_name : k \in DOMAIN list} |->
        list[Max({k \in DOMAIN list : list[k].package_name = n})]]

environment_of(dev) == IF dev THEN all_packages ELSE default_packages

\* The lock mapping laid over the existing requirements (lines 130-133).
lock_map_of(dev) == IF dev THEN PipfileLock_dev ELSE PipfileLock_default

generate_dependencies_transitive(roots) ==
    LET Step(S) == S \cup UNION {Range(dependency_map[r]) :
                                    r \in S \cap DOMAIN dependency_map}
    IN  Step(Step(roots))

generate_dependencies_skip_missing(roots) ==
    (roots \cap DOMAIN dependency_map)
        \cup UNION {Range(dependency_map[r]) :
                       r \in roots \cap DOMAIN dependency_map}

generate_dependencies(roots) ==
    roots \cup UNION {Range(dependency_map[r]) :
                         r \in roots \cap DOMAIN dependency_map}

\* sorted(S) for a set of strings.
RECURSIVE sorted_reversed(_)
sorted_reversed(S) ==
    IF S = {} THEN <<>>
    ELSE LET m == CHOOSE x \in S : \A y \in S \ {x} : StrLess(y, x)
         IN  <<m>> \o sorted_reversed(S \ {m})

RECURSIVE sorted(_)
sorted(S) ==
    IF S = {} THEN <<>>
    ELSE LET m == CHOOSE x \in S : \A y \in S \ {x} : StrLess(x, y)
         IN  <<m>> \o sorted(S \ {m})

additive_never(ip, f) == FALSE

\* Line 147: the branch that keeps every existing package.
additive(ip, f) == ip /\ ~f

\* The outcome of one call: raised (the KeyError of version_map[dep]), the
\* local full_dependencies, sorted(full_dependencies), the returned lines and
\* what was logged.
generate_requirements(list, f, ip, dev) ==
    LET requirements == requirements_dict(list)
        environment  == environment_of(dev)
        version_map  == Merge(requirements, lock_map_of(dev))
        root_requirements == DOMAIN requirements \cap environment
        reached == generate_dependencies(root_requirements)
        full_dependencies ==
            IF additive(ip, f) THEN reached \cup DOMAIN requirements
            ELSE reached
        missing == IF additive(ip, f) THEN {}
                   ELSE DOMAIN requirements \ full_dependencies
        raised == ~(full_dependencies \subseteq DOMAIN version_map)
        deps == sorted(full_dependencies)
    IN  [raised |-> raised,
         full_dependencies |-> full_dependencies,
         deps |-> deps,
         lines |-> IF raised THEN <<>>
                   ELSE [k \in DOMAIN deps |->
                            version_map[deps[k]].requirement_line],
         graph_miss |-> root_requirements \ DOMAIN dependency_map,
         removed |-> IF ip THEN missing ELSE {},
         skipped_dev |-> IF ip THEN {}
                         ELSE {p \in missing : ~dev /\ p \in dev_packages},
         missing_pipfile |-> IF ip THEN {}
                             ELSE {p \in missing :
                                      ~(~dev /\ p \in dev_packages)}]

----------------------------------------------------------------------------
(* The inputs the specifications draw from *)

\* Bounds: the longest requirements list handed to generate_requirements
\* and the number of directories main can discover files in.
MaxLines == 2
MaxFiles == 2

PkgA  == <<"a">>
PkgA0 == <<"a", "0">>
PkgB  == <<"b">>
Names == {PkgA, PkgA0, PkgB}

Entry(version, git, editable, ref) ==
    [version |-> version, git |-> git, editable |-> editable, ref |-> ref]

Pinned1 == Entry(<<"=", "=", "1">>, <<>>, FALSE, <<>>)
Pinned2 == Entry(<<"=", "=", "2">>, <<>>, FALSE, <<>>)
GitU == Entry(<<>>, <<"u">>, FALSE, <<>>)

\* Lock entries for from_data: a version (pinned, or with another
\* comparator, or empty), a git URL (one of them holding "=="), editable,
\* a ref, or none of them.
Versions == {<<>>, <<"=", "=", "1">>, <<">", "=", "1">>}
GitUrls  == {<<>>, <<"u">>, <<"u", "=", "=", "u">>}
Refs     == {<<>>, <<"t">>}
Entries  == {Entry(v, g, e, r) :
                v \in Versions, g \in GitUrls, e \in BOOLEAN, r \in Refs}

\* The lines of an existing requirements file (without their newline).
LineA0  == <<"a", "=", "=", "0">>
LineA2  == <<"a", "=", "=", "2">>
LineA00 == <<"a", "0", "=", "=", "0">>
LineB   == <<"b">>
Lines == {LineA0, LineA2, LineA00, LineB}

SeqsUpTo(S, n) == UNION {[1..k -> S] : k \in 0..n}

\* Partial maps: each package is absent or maps to one of its options.
PartialMaps(options) ==
    UNION {{f \in [D -> UNION Range(options)] :
               \A n \in D : f[n] \in options[n]} : D \in SUBSET DOMAIN options}

\* The lock maps of SpecGen and Spec hold entries as pipenv locks them: a
\* pinned version or a git URL.
LockDefaults ==
    {f \in PartialMaps([n \in Names |->
                           IF n = PkgA0 THEN {GitU} ELSE {Pinned1}]) :
        PkgB \in DOMAIN f}

LockDevelops == PartialMaps([n \in {PkgB} |-> {Pinned2}])

DependencyMaps ==
    PartialMaps([n \in Names |->
                    IF n = PkgA THEN {<<PkgA0>>, <<PkgA0, PkgB>>}
                    ELSE IF n = PkgA0 THEN {<<PkgB>>} ELSE {<<>>}])

NoEntry == Entry(<<>>, <<>>, FALSE, <<>>)
NoRequirement == Requirement(<<>>, <<>>)
NoResult == [raised |-> FALSE, full_dependencies |-> {}, deps |-> <<>>,
             lines |-> <<>>, graph_miss |-> {}, removed |-> {},
             skipped_dev |-> {}, missing_pipfile |-> {}]

InitProject ==
    /\ packages \in SUBSET {PkgA, PkgA0}
    /\ dev_packages \in SUBSET {PkgB}
    /\ lock_default \in LockDefaults
    /\ lock_develop \in LockDevelops
    /\ dependency_map \in DependencyMaps

InitFlags ==
    /\ force \in BOOLEAN
    /\ in_place \in BOOLEAN
    /\ include_dev \in BOOLEAN

IdleReq ==
    /\ req_name = <<>> /\ req_data = NoEntry
    /\ req = NoRequirement /\ parsed = NoRequirement

IdleGen == requirements_list = <<>> /\ result = NoResult /\ rerun = NoResult

IdleMain ==
    /\ exited_by = "" /\ exit_code = 0
    /\ path_given = FALSE /\ lock_readable = TRUE /\ pipfile_readable = TRUE
    /\ fs_before = <<>> /\ fs = <<>> /\ exclude = {}
    /\ dependency_files = <<>> /\ idx = 0
    /\ synced_count = 0 /\ skipped_count = 0 /\ written = {}

IdleProject ==
    /\ packages = {} /\ dev_packages = {}
    /\ lock_default = <<>> /\ lock_develop = <<>> /\ dependency_map = <<>>
    /\ force = FALSE /\ in_place = FALSE /\ include_dev = FALSE

----------------------------------------------------------------------------
(* SpecReq: Requirement.from_data followed by parse_requirement_line *)

InitReq ==
    /\ IdleProject /\ IdleGen /\ IdleMain
    /\ pc = "from_data"
    /\ req_name \in Names
    /\ req_data \in Entries
    /\ req = NoRequirement
    /\ parsed = NoRequirement

\* PipfileLock.default / dev build a Requirement from a lock entry.
FromData ==
    /\ pc = "from_data"
    /\ req' = from_data(req_name, req_data)
    /\ pc' = "parse_requirement_line"
    /\ UNCHANGED <<project, flags, genvars, rest, req_name, req_data, parsed>>

\* The written line is read back from a requirements file.
ParseLine ==
    /\ pc = "parse_requirement_line"
    /\ parsed' = parse_requirement_line(req.requirement_line \o NL)
    /\ pc' = "parsed"
    /\ UNCHANGED <<project, flags, genvars, rest, req_name, req_data, req>>

NextReq == FromData \/ ParseLine

SpecReq == InitReq /\ [][NextReq]_vars

----------------------------------------------------------------------------
(* SpecGen: generate_requirements on a parsed requirements list *)

\* [Requirement.parse_requirement_line(line) for line in rf]
parse_lines(ls) == [k \in DOMAIN ls |-> parse_requirement_line(ls[k] \o NL)]

InitGen ==
    /\ InitProject /\ InitFlags /\ IdleReq /\ IdleMain /\ IdleGen
    /\ pc = "generate"

Generate ==
    /\ pc = "generate"
    /\ pc' = "generated"
    /\ \E ls \in SeqsUpTo(Lines, MaxLines) :
          /\ requirements_list' = parse_lines(ls)
          /\ result' = generate_requirements(parse_lines(ls), force, in_place,
                                             include_dev)
    /\ UNCHANGED <<project, flags, reqvars, rest, rerun>>

\* The lines just returned are parsed and reconciled again.
Regenerate ==
    /\ pc = "generated"
    /\ ~result.raised
    /\ pc' = "regenerated"
    /\ rerun' = generate_requirements(parse_lines(result.lines), force,
                                      in_place, include_dev)
    /\ UNCHANGED <<project, flags, reqvars, rest, requirements_list, result>>

NextGen == Generate \/ Regenerate

SpecGen == InitGen /\ [][NextGen]_vars

----------------------------------------------------------------------------
(* Spec: main *)

File(text) == [exists |-> TRUE, text |-> text]
NoFile == [exists |-> FALSE, text |-> <<>>]

\* The directories os.walk visits, in the order it visits them; the first is
\* the project root.
Dirs == 1..MaxFiles

is_readable_file(file) == file.exists

\* Iterating a text file: its lines, each with its newline (the last line
\* may have none).
RECURSIVE readlines(_)
readlines(text) ==
    IF text = <<>> THEN <<>>
    ELSE LET ends == {k \in 1..Len(text) : text[k] = "\n"}
             n == IF ends = {} THEN Len(text) ELSE Min(ends)
         IN  <<SubSeq(text, 1, n)>> \o readlines(SubSeq(text, n + 1, Len(text)))

\* "\n".join(lines)
RECURSIVE join(_)
join(lines) ==
    IF lines = <<>> THEN <<>>
    ELSE IF Len(lines) = 1 THEN lines[1]
    ELSE lines[1] \o NL \o join(Tail(lines))

\* print("\n".join(req_content), file=f)
print_joined(req_content) == join(req_content) \o NL

\* The file main reads in a directory: requirements.txt when editing in
\* place, requirements.direct.txt otherwise (lines 340-343).
input_of(dir, ip) == IF ip THEN dir.requirements ELSE dir.direct

\* find_dependency_files / recursive_search: the walked directories that are
\* not pruned and hold a readable file of the searched name.
RECURSIVE recursive_search(_, _, _, _)
recursive_search(files, ip, pruned, d) ==
    IF d > Len(files) THEN <<>>
    ELSE (IF d \notin pruned /\ is_readable_file(input_of(files[d], ip))
          THEN <<d>> ELSE <<>>) \o recursive_search(files, ip, pruned, d + 1)

find_dependency_files(files, ip, pruned) == recursive_search(files, ip, pruned, 1)

\* SystemExit(1) of arguments(), and the status of an uncaught exception.
failure_exit_status == 1

no_files_exit_status_failure == failure_exit_status

\* "raise SystemExit" without a code: the process exits with status 0.
no_files_exit_status == 0

write_condition_always(req_content) == TRUE

\* if req_content := ...: a list is true when it is not empty (line 355).
write_condition(req_content) == req_content # <<>>

Exit(by, status) ==
    /\ pc' = "exit"
    /\ exited_by' = by
    /\ exit_code' = status

DirectTexts == {NoFile, File(LineA0 \o NL), File(LineB \o NL)}
RequirementsTexts == {NoFile, File(LineB \o NL), File(LineA0 \o NL \o LineB \o NL)}

InitMain ==
    /\ packages \in {{}, {PkgA}}
    /\ dev_packages = {}
    /\ lock_default \in {f \in LockDefaults :
                            PkgA \in DOMAIN f /\ f[PkgA] = Pinned1}
    /\ lock_develop = <<>>
    /\ dependency_map = [n \in {PkgA} |-> <<PkgA0>>]
    /\ InitFlags /\ IdleReq /\ IdleGen
    /\ pc = "arguments"
    /\ exited_by = "" /\ exit_code = 0
    /\ path_given \in BOOLEAN
    /\ lock_readable \in BOOLEAN
    /\ pipfile_readable \in BOOLEAN
    /\ fs_before \in [Dirs -> [direct : DirectTexts,
                               requirements : RequirementsTexts]]
    /\ fs = fs_before
    /\ exclude \in SUBSET (Dirs \ {1})
    /\ dependency_files = <<>> /\ idx = 0
    /\ synced_count = 0 /\ skipped_count = 0 /\ written = {}

\* arguments(): with a PATH, Pipfile.lock must be readable there.
Arguments ==
    /\ pc = "arguments"
    /\ IF path_given /\ ~lock_readable
       THEN Exit("arguments", failure_exit_status)
       ELSE pc' = "PackageProcessor" /\ UNCHANGED <<exited_by, exit_code>>
    /\ UNCHANGED <<project, flags, reqvars, genvars, path_given, lock_readable,
                   pipfile_readable, fs_before, fs, exclude, dependency_files,
                   idx, synced_count, skipped_count, written>>

\* PackageProcessor(root, ...): Pipfile and PipfileLock raise ValueError
\* for a file that is not readable.
Construct ==
    /\ pc = "PackageProcessor"
    /\ IF ~pipfile_readable THEN Exit("Pipfile", failure_exit_status)
       ELSE IF ~lock_readable THEN Exit("PipfileLock", failure_exit_status)
       ELSE pc' = "find_dependency_files" /\ UNCHANGED <<exited_by, exit_code>>
    /\ UNCHANGED <<project, flags, reqvars, genvars, path_given, lock_readable,
                   pipfile_readable, fs_before, fs, exclude, dependency_files,
                   idx, synced_count, skipped_count, written>>

\* Lines 340-351.
Discover ==
    /\ pc = "find_dependency_files"
    /\ dependency_files' = find_dependency_files(fs, in_place, exclude)
    /\ IF dependency_files' = <<>>
       THEN Exit("no_files", no_files_exit_status) /\ UNCHANGED idx
       ELSE pc' = "loop" /\ idx' = 1 /\ UNCHANGED <<exited_by, exit_code>>
    /\ UNCHANGED <<project, flags, reqvars, genvars, path_given, lock_readable,
                   pipfile_readable, fs_before, fs, exclude,
                   synced_count, skipped_count, written>>

\* One iteration of the loop of lines 352-362.
ProcessFile ==
    /\ pc = "loop" /\ idx <= Len(dependency_files)
    /\ LET d == dependency_files[idx]
           requirements == parse_lines(readlines(input_of(fs[d], in_place).text))
           out == generate_requirements(requirements, force, in_place,
                                        include_dev)
       IN  /\ requirements_list' = requirements
           /\ result' = out
           /\ IF out.raised
              THEN /\ Exit("KeyError", failure_exit_status)
                   /\ UNCHANGED <<fs, idx, synced_count, skipped_count, written>>
              ELSE /\ idx' = idx + 1
                   /\ UNCHANGED <<pc, exited_by, exit_code>>
                   /\ IF write_condition(out.lines)
                      THEN /\ fs' = [fs EXCEPT ![d].requirements =
                                        File(print_joined(out.lines))]
                           /\ synced_count' = synced_count + 1
                           /\ written' = written \cup {d}
                           /\ UNCHANGED skipped_count
                      ELSE /\ skipped_count' = skipped_count + 1
                           /\ UNCHANGED <<fs, synced_count, written>>
    /\ UNCHANGED <<project, flags, reqvars, rerun, path_given, lock_readable,
                   pipfile_readable, fs_before, exclude, dependency_files>>

\* Line 364: the loop is over and main returns.
Finish ==
    /\ pc = "loop" /\ idx > Len(dependency_files)
    /\ pc' = "done"
    /\ exited_by' = "end"
    /\ exit_code' = 0
    /\ UNCHANGED <<project, flags, reqvars, genvars, path_given, lock_readable,
                   pipfile_readable, fs_before, fs, exclude, dependency_files,
                   idx, synced_count, skipped_count, written>>

Next == Arguments \/ Construct \/ Discover \/ ProcessFile \/ Finish

Spec == InitMain /\ [][Next]_vars

----------------------------------------------------------------------------
(* Properties of generate_requirements (specification SpecGen) *)

Generated == pc \in {"generated", "regenerated"}

ExistingNames ==
    {requirements_list[k].package_name : k \in DOMAIN requirements_list}

\* The existing packages the manifest declares for the active environment.
Root ==
    ExistingNames \cap (IF include_dev THEN packages \cup dev_packages
                        ELSE packages)

\* What the roots reach in one hop of the dependency map.
OneHop ==
    Root \cup UNION {Range(dependency_map[r]) :
                        r \in Root \cap DOMAIN dependency_map}

\* The last requirement of the existing list that names package n.
LastExisting(n) ==
    requirements_list[Max({k \in DOMAIN requirements_list :
                              requirements_list[k].package_name = n})]

\* C1: with force or without in_place, a call that returns emits exactly
\* the roots and what they reach in one hop: one line per such package,
\* nothing reached only through a dependency of a dependency, no orphan.
C1_OneHopClosure ==
    (Generated /\ (force \/ ~in_place) /\ ~result.raised) =>
        /\ Range(result.deps) = OneHop
        /\ result.full_dependencies = OneHop
        /\ Len(result.lines) = Cardinality(OneHop)

\* A root reaches a0, a0 has its own dependency b, and b is not emitted,
\* while an existing package outside the roots is dropped.
C1_Witness ==
    /\ Generated /\ (force \/ ~in_place) /\ ~result.raised
    /\ PkgA \in Root /\ PkgA0 \notin Root /\ PkgB \notin Root
    /\ PkgA0 \in Range(result.deps)
    /\ PkgA0 \in DOMAIN dependency_map
    /\ PkgB \in Range(dependency_map[PkgA0])
    /\ PkgB \notin Range(result.deps)
    /\ PkgB \in ExistingNames

\* Every lock entry of the lock map in use has no version or a version that
\* starts with "==" (C7: the lines of such entries parse back to their
\* package; the lock maps of SpecGen hold no other entries).
LockPinned ==
    LET raw == IF include_dev THEN lock_develop ELSE lock_default
    IN  \A n \in DOMAIN raw :
            raw[n].version = <<>> \/ StartsWith(raw[n].version, EqEq)

\* C2 as claimed: in strict mode, reconciling the parsed output of a first
\* run gives the closure and the lines of the first run.
C2_Idempotent ==
    (pc = "regenerated" /\ ~in_place /\ ~force) =>
        /\ rerun.full_dependencies = result.full_dependencies
        /\ rerun.lines = result.lines

\* C2 as amended: the second run repeats the first when the lock's version
\* specs start with "==" and every package of the first closure that the
\* manifest environment declares was already in the existing list.
C2_IdempotentWhenClosed ==
    (/\ pc = "regenerated" /\ ~in_place /\ ~force
     /\ LockPinned
     /\ result.full_dependencies
            \cap (IF include_dev THEN packages \cup dev_packages ELSE packages)
          \subseteq ExistingNames) =>
        /\ ~rerun.raised
        /\ rerun.full_dependencies = result.full_dependencies
        /\ rerun.lines = result.lines

\* A second run over an output that holds a git line and a dependency the
\* existing list did not have.
C2_Witness ==
    /\ pc = "regenerated" /\ ~in_place /\ ~force /\ LockPinned
    /\ result.full_dependencies \cap packages \subseteq ExistingNames
    /\ ~include_dev
    /\ PkgA0 \in result.full_dependencies
    /\ PkgA0 \notin ExistingNames
    /\ PkgA0 \in DOMAIN lock_default
    /\ rerun.lines = result.lines

\* C3: in place and without force, the closure holds every existing
\* package, a call that returns has a line for each, and an orphan keeps
\* its existing line.
C3_Additive ==
    (Generated /\ in_place /\ ~force) =>
        /\ ExistingNames \subseteq result.full_dependencies
        /\ ~result.raised =>
              \A n \in ExistingNames :
                  \E k \in DOMAIN result.deps :
                      /\ result.deps[k] = n
                      /\ (/\ n \notin (IF include_dev
                                       THEN packages \cup dev_packages
                                       ELSE packages)
                          /\ n \notin DOMAIN (IF include_dev THEN lock_develop
                                              ELSE lock_default))
                           => result.lines[k] = LastExisting(n).requirement_line

\* An orphan of the existing list is emitted with its own line next to a
\* root that pulled in a dependency.
C3_Witness ==
    /\ Generated /\ in_place /\ ~force /\ ~result.raised
    /\ ~include_dev
    /\ PkgA \in ExistingNames /\ PkgA \notin packages
    /\ PkgA \notin DOMAIN lock_default
    /\ Root # {}
    /\ \E k \in DOMAIN result.deps :
          result.deps[k] = PkgA /\ result.lines[k] \in {LineA0, LineA2}

\* The lock mapping C4 describes: default, overlaid by develop with
\* include_dev.
lock_map_merged(dev) ==
    IF dev THEN Merge(PipfileLock_default, PipfileLock_dev)
    ELSE PipfileLock_default

\* C4 as claimed: every emitted package that the lock resolves, in its
\* default mapping or, with include_dev, in default or develop, is emitted
\* with the lock's line.
C4_LockAuthoritative ==
    (Generated /\ ~result.raised) =>
        \A k \in DOMAIN result.deps :
            result.deps[k] \in DOMAIN lock_map_merged(include_dev) =>
                result.lines[k] =
                    lock_map_merged(include_dev)[result.deps[k]].requirement_line

\* C6: a root that the dependency map does not hold is warned about, stays
\* in the closure and has its line; when no root is in the map nothing
\* beyond the roots (and, in additive mode, the existing packages) is in the
\* closure and the call returns; a call aborts only over a package that is
\* no existing package.
C6_GraphMissIsSoft ==
    Generated =>
        LET missed == Root \ DOMAIN dependency_map
        IN  /\ result.graph_miss = missed
            /\ missed \subseteq result.full_dependencies
            /\ ~result.raised => missed \subseteq Range(result.deps)
            /\ missed = Root =>
                  /\ ~result.raised
                  /\ result.full_dependencies =
                        (IF in_place /\ ~force THEN ExistingNames ELSE Root)
            /\ result.raised =>
                  \E n \in result.full_dependencies : n \notin ExistingNames

\* In strict mode one root misses the dependency map, another is in it,
\* and the call returns with both.
C6_Witness ==
    /\ Generated /\ ~in_place /\ ~result.raised
    /\ \E r \in Root : r \notin DOMAIN dependency_map
                        /\ r \in Range(result.deps)
    /\ \E r \in Root : r \in DOMAIN dependency_map

Permutations(list) ==
    {[k \in DOMAIN list |-> list[p[k]]] :
        p \in {q \in [DOMAIN list -> DOMAIN list] :
                  \A i, j \in DOMAIN list : q[i] = q[j] => i = j}}

\* C8: the returned lines follow the package names in ascending string
\* order, one line for each package of the closure, each line a line of its
\* package, and every permutation of the existing list gives the same order.
C8_SortedByName ==
    (Generated /\ ~result.raised) =>
        /\ \A i, j \in DOMAIN result.deps :
              i < j => StrLess(result.deps[i], result.deps[j])
        /\ Range(result.deps) = result.full_dependencies
        /\ DOMAIN result.lines = DOMAIN result.deps
        /\ \A k \in DOMAIN result.deps :
              \E r \in Range(requirements_list) \cup Range(PipfileLock_default)
                          \cup Range(PipfileLock_dev) :
                  /\ r.package_name = result.deps[k]
                  /\ r.requirement_line = result.lines[k]
        /\ \A other \in Permutations(requirements_list) :
              LET again == generate_requirements(other, force, in_place,
                                                 include_dev)
              IN  ~again.raised /\ again.deps = result.deps

\* An existing list given in descending order comes back ascending, with
\* "a" before "a0" although the line of "a0" sorts before the line of "a".
C8_Witness ==
    /\ Generated /\ ~result.raised
    /\ Len(requirements_list) = 2
    /\ StrLess(requirements_list[2].package_name,
               requirements_list[1].package_name)
    /\ \E i, j \in DOMAIN result.deps :
          /\ i < j
          /\ result.deps[i] = PkgA /\ result.deps[j] = PkgA0
          /\ StrLess(result.lines[j], result.lines[i])

----------------------------------------------------------------------------
(* Properties of Requirement (specification SpecReq) *)

\* C7 as claimed: for every package name and lock entry, the line built by
\* from_data parses back to the package name.
C7_RoundTrip ==
    pc = "parsed" => parsed.package_name = req_name

\* C7 as amended: the line parses back to the package name when the entry
\* has no version or a version that starts with "=="; for a git entry the
\* name is the egg fragment, also when "==" occurs earlier in the line.
C7_RoundTripPinned ==
    (/\ pc = "parsed"
     /\ \/ req_data.version = <<>>
        \/ StartsWith(req_data.version, EqEq)) =>
        /\ parsed.package_name = req_name
        /\ parsed.requirement_line = req.requirement_line
        /\ req.package_name = req_name

\* An editable git entry with a ref whose URL holds "==" has been built and
\* parsed back.
C7_Witness ==
    /\ pc = "parsed"
    /\ req_data.version = <<>>
    /\ req_data.git = <<"u", "=", "=", "u">>
    /\ req_data.editable /\ req_data.ref # <<>>
    /\ Occurrences(req.requirement_line, EqEq) # {}
    /\ parsed.package_name = req_name

----------------------------------------------------------------------------
(* Properties of main (specification Spec) *)

\* The directories whose file the loop has dealt with so far.
Processed == {dependency_files[k] : k \in 1..(idx - 1)}

\* What generate_requirements returns for the file main reads in d.
OutcomeOf(d) ==
    generate_requirements(
        parse_lines(readlines((IF in_place THEN fs_before[d].requirements
                               ELSE fs_before[d].direct).text)),
        force, in_place, include_dev)

NamesIn(file) ==
    {parse_requirement_line(l).package_name : l \in Range(readlines(file.text))}

\* C5 as claimed: finding no file ends the process with a status that is
\* neither the success status nor the status of a missing manifest or lock,
\* and writes nothing.
C5_NoFilesDistinctStatus ==
    exited_by = "no_files" =>
        /\ exit_code # 0
        /\ exit_code # failure_exit_status
        /\ fs = fs_before

\* C5 as amended: finding no file ends the process with status 0, the
\* status of a completed run, and writes nothing; a manifest or lock that
\* cannot be read ends it with status 1 and writes nothing.
C5_NoFilesExitsZero ==
    /\ exited_by = "no_files" =>
          /\ pc = "exit" /\ exit_code = 0 /\ fs = fs_before
          /\ find_dependency_files(fs, in_place, exclude) = <<>>
    /\ exited_by = "end" => exit_code = 0
    /\ exited_by \in {"arguments", "Pipfile", "PipfileLock"} =>
          /\ pc = "exit" /\ exit_code = 1 /\ fs = fs_before
          /\ ~lock_readable \/ ~pipfile_readable
    /\ (pc \notin {"arguments", "PackageProcessor"}
        /\ exited_by \notin {"arguments", "Pipfile", "PipfileLock"}) =>
          lock_readable /\ pipfile_readable

\* No file of the searched name although a directory holds the other file.
C5_Witness ==
    /\ exited_by = "no_files" /\ pc = "exit"
    /\ ~in_place
    /\ \E d \in Dirs : fs[d].requirements.exists

\* C9: the loop deals with the discovered files one by one in their order;
\* a file's sibling requirements.txt holds the joined lines and a final
\* newline exactly when the call returned lines for it, and is as it was
\* otherwise; the counts add up to the files dealt with, all of them once
\* main has returned; requirements.direct.txt is never changed.
C9_LoopWrites ==
    pc \in {"loop", "done", "exit"} /\ exited_by \in {"", "end", "KeyError"} =>
        /\ idx \in 1..(Len(dependency_files) + 1)
        /\ \A i, j \in DOMAIN dependency_files :
              i < j => dependency_files[i] < dependency_files[j]
        /\ synced_count + skipped_count = idx - 1
        /\ synced_count = Cardinality(written)
        /\ pc = "done" => idx - 1 = Len(dependency_files)
        /\ \A d \in Dirs :
              /\ fs[d].direct = fs_before[d].direct
              /\ d \notin Processed =>
                    d \notin written /\ fs[d] = fs_before[d]
              /\ d \in Processed =>
                    LET out == OutcomeOf(d)
                    IN  /\ ~out.raised
                        /\ out.lines # <<>> =>
                              /\ d \in written
                              /\ fs[d].requirements.exists
                              /\ readlines(fs[d].requirements.text) =
                                    [k \in DOMAIN out.lines |->
                                        out.lines[k] \o NL]
                        /\ out.lines = <<>> =>
                              /\ d \notin written
                              /\ fs[d].requirements = fs_before[d].requirements

\* A completed run, not in place, that wrote one directory's
\* requirements.txt anew and skipped another directory.
C9_Witness ==
    /\ pc = "done" /\ ~in_place
    /\ synced_count = 1 /\ skipped_count = 1
    /\ \E d \in written :
          /\ ~fs_before[d].requirements.exists
          /\ Len(readlines(fs[d].requirements.text)) = 2

\* C10 as claimed: after a completed run in place with force, no processed
\* requirements.txt holds a package that the run reported as removed.
C10_ForceRemovedAreGone ==
    (pc = "done" /\ in_place /\ force) =>
        \A d \in Processed :
            NamesIn(fs[d].requirements) \cap OutcomeOf(d).removed = {}

====
